---- MODULE Spec2Model ----
(***************************************************************************)
(* Model of src/src/App.js: the React component App of the content         *)
(* management admin panel.                                                 *)
(*                                                                         *)
(* The component state is the five useState cells (content, formData,      *)
(* loading, message, serverStatus) plus the DOM value of the file input.   *)
(* Every async handler is split at its single `await`: the part before the *)
(* await issues a request (an entry of net), the part after it is one      *)
(* atomic step that handles the outcome (JavaScript runs a continuation to *)
(* completion, and React applies its state updates before the next event). *)
(* The backend is the environment: it answers a request either with a      *)
(* success body computed from its store, or with one of the failures axios *)
(* can produce.  It hands out a fresh id for every item it creates.        *)
(*                                                                         *)
(* Strings of the source that contain emoji are written with ASCII stand-  *)
(* ins: "[ok]" for the check mark and "[x]" for the cross.                 *)
(***************************************************************************)
EXTENDS Integers, Sequences, FiniteSets, TLC

\* Bound of the model: the number of requests the page issues in one run
\* (the two of the mount effect included).
MaxRequests == 4

VARIABLES
    content,       \* useState([])            App.js:9
    formData,      \* useState({title,...})   App.js:10-14
    loading,       \* useState(false)         App.js:15
    message,       \* useState('')            App.js:16
    serverStatus,  \* useState('checking...') App.js:17
    fileInput,     \* value of <input id="imageInput" type="file">  App.js:190-196
    mounted,       \* whether the mount effect (App.js:58-61) has run
    net,           \* the requests awaiting their outcome, in the order they were issued
    issued,        \* how many requests the page has issued
    store,         \* backend: the items it holds, in the order GET /content lists them
    nextId,        \* backend: the next fresh item id
    deletedOK,     \* history: ids for which a successful delete response was handled
    lastOp         \* history: the handler step taken last, with its inputs.  op is
                   \* "submit" / "confirm" for handleSubmit / handleDelete up to their
                   \* await, the handler's name for the step after an await, and
                   \* "other" for the steps no property below speaks of

vars == <<content, formData, loading, message, serverStatus, fileInput, mounted,
          net, issued, store, nextId, deletedOK, lastOp>>

client == <<content, formData, loading, message, serverStatus, fileInput>>

----------------------------------------------------------------------------
\* Values

NULL == "null"
UNDEFINED == "undefined"
FILE == "cat.png"

Titles == {"", "A"}
Descriptions == {"", "d"}
PickedFiles == {FILE, UNDEFINED}

EmptyDraft == [title |-> "", description |-> "", image |-> NULL]

StatusChecking == "checking..."
StatusConnected == "[ok] Connected"
StatusDisconnected == "[x] Disconnected"

MsgValidation == "Please fill all fields and select an image"
MsgAdded == "[ok] Content added successfully!"
MsgDeleted == "[ok] Content deleted successfully!"
MsgNoConnection == "Cannot connect to server. Make sure backend is running on port 2148!"

Item(id, title, description) == [id |-> id, title |-> title, description |-> description]

\* What the backend holds when the page is opened.
InitialStore == <<Item(2, "Q", "q"), Item(1, "P", "p")>>

\* What axios rejects with.  shape "response": the server answered with an
\* error status; "request": the request was sent and no response came;
\* "other": anything else.  dataMessage is error.response.data.message
\* ("" when the body carries none).
ErrHttp == [shape |-> "response", status |-> 500, statusText |-> "Internal Server Error",
            dataMessage |-> "disk full", message |-> "Request failed with status code 500"]
ErrNoResponse == [shape |-> "request", status |-> 0, statusText |-> "",
                  dataMessage |-> "", message |-> "Network Error"]
ErrOther == [shape |-> "other", status |-> 0, statusText |-> "",
             dataMessage |-> "", message |-> "Cannot read properties of undefined"]
Errors == {ErrHttp, ErrNoResponse, ErrOther}

\* A response body with success false: its message field ("" when absent).
RefusalMessages == {"", "database offline"}

\* JavaScript a || b on strings: a unless it is falsy.
OrElse(a, b) == IF a = "" THEN b ELSE a

Ids(list) == { list[i].id : i \in DOMAIN list }

InFlight(kind) == { r \in DOMAIN net : net[r].kind = kind }

Issue(req) == Append(net, req)

Settle(r) == SubSeq(net, 1, r - 1) \o SubSeq(net, r + 1, Len(net))

----------------------------------------------------------------------------
\* Construction

Init ==
    /\ content = <<>>
    /\ formData = EmptyDraft
    /\ loading = FALSE
    /\ message = ""
    /\ serverStatus = StatusChecking
    /\ fileInput = ""
    /\ mounted = FALSE
    /\ net = <<>>
    /\ issued = 0
    /\ store = InitialStore
    /\ nextId = Len(store) + 1
    /\ deletedOK = {}
    /\ lastOp = [op |-> "other"]

\* useEffect(() => { checkServerHealth(); fetchContent(); }, [])
Mount ==
    /\ ~mounted
    /\ issued + 2 <= MaxRequests
    /\ mounted' = TRUE
    /\ net' = net \o << [kind |-> "health", stage |-> "sent"],
                        [kind |-> "list", stage |-> "sent"] >>
    /\ issued' = issued + 2
    /\ lastOp' = [op |-> "other"]
    /\ UNCHANGED <<client, store, nextId, deletedOK>>

----------------------------------------------------------------------------
\* Outcomes of an awaited request

Accepted(data) == [thrown |-> FALSE, success |-> TRUE, data |-> data]
Refused(msg) == [thrown |-> FALSE, success |-> FALSE, message |-> msg]
Thrown(err) == [thrown |-> TRUE, success |-> FALSE, error |-> err]

\* accepted: success true; refused: a response with success false; thrown: the
\* await rejected (or the code after it threw).
Result(out) == IF out.thrown THEN "thrown" ELSE IF out.success THEN "accepted" ELSE "refused"

Failures == { Refused(m) : m \in RefusalMessages } \cup { Thrown(e) : e \in Errors }

\* What the await of request r can produce: the backend's answer once it has
\* processed the request, a failure before that.
Outcomes(r) ==
    IF net[r].stage = "replied" THEN { Accepted(net[r].data) } ELSE Failures

----------------------------------------------------------------------------
\* checkServerHealth, after its await

CheckServerHealthSettled(r, out) ==
    /\ r \in InFlight("health")
    /\ out \in {Accepted("up")} \cup Failures
    /\ serverStatus' = IF out.thrown THEN StatusDisconnected
                       ELSE IF out.success THEN StatusConnected
                       ELSE serverStatus
    /\ net' = Settle(r)
    /\ lastOp' = [op |-> "checkServerHealth", result |-> Result(out)]
    /\ UNCHANGED <<content, formData, loading, message, fileInput, mounted,
                   issued, store, nextId, deletedOK>>

----------------------------------------------------------------------------
\* fetchContent

\* The message of the catch block, by the shape of the failure.
FetchErrorMessage(err) ==
    IF err.shape = "response"
    THEN "Error: " \o ToString(err.status) \o " - " \o err.statusText
    ELSE IF err.shape = "request"
    THEN MsgNoConnection
    ELSE "Error: " \o err.message

\* Up to the await: the Refresh button, or the mount effect.
FetchContent ==
    /\ mounted
    /\ issued < MaxRequests
    /\ net' = Issue([kind |-> "list", stage |-> "sent"])
    /\ issued' = issued + 1
    /\ lastOp' = [op |-> "other"]
    /\ UNCHANGED <<client, mounted, store, nextId, deletedOK>>

\* The backend answers GET /content with what it holds now.
BackendList(r) ==
    /\ r \in InFlight("list")
    /\ net[r].stage = "sent"
    /\ net' = [net EXCEPT ![r] = [kind |-> "list", stage |-> "replied", data |-> store]]
    /\ lastOp' = [op |-> "other"]
    /\ UNCHANGED <<client, mounted, issued, store, nextId, deletedOK>>

\* FetchContentSettled with a catch block that also empties the list.
FetchContentSettledClearing(r, out) ==
    /\ r \in InFlight("list")
    /\ out \in Outcomes(r)
    /\ IF out.thrown
       THEN /\ message' = FetchErrorMessage(out.error)
            /\ content' = <<>>
       ELSE IF out.success
       THEN /\ content' = out.data
            /\ message' = ""
       ELSE /\ message' = "Server error: " \o OrElse(out.message, "Unknown error")
            /\ UNCHANGED content
    /\ net' = Settle(r)
    /\ lastOp' = [op |-> "fetchContent", result |-> Result(out), out |-> out]
    /\ UNCHANGED <<formData, loading, serverStatus, fileInput, mounted,
                   issued, store, nextId, deletedOK>>

\* FetchContentSettled reconciling the response with the deletes already
\* handled: an item whose delete succeeded is not shown again.
FetchContentSettledReconciling(r, out) ==
    /\ r \in InFlight("list")
    /\ out \in Outcomes(r)
    /\ IF out.thrown
       THEN /\ message' = FetchErrorMessage(out.error)
            /\ UNCHANGED content
       ELSE IF out.success
       THEN /\ content' = SelectSeq(out.data, LAMBDA item : item.id \notin deletedOK)
            /\ message' = ""
       ELSE /\ message' = "Server error: " \o OrElse(out.message, "Unknown error")
            /\ UNCHANGED content
    /\ net' = Settle(r)
    /\ lastOp' = [op |-> "fetchContent", result |-> Result(out), out |-> out]
    /\ UNCHANGED <<formData, loading, serverStatus, fileInput, mounted,
                   issued, store, nextId, deletedOK>>

\* After the await.
FetchContentSettled(r, out) ==
    /\ r \in InFlight("list")
    /\ out \in Outcomes(r)
    /\ IF out.thrown
       THEN /\ message' = FetchErrorMessage(out.error)
            /\ UNCHANGED content
       ELSE IF out.success
       THEN /\ content' = out.data
            /\ message' = ""
       ELSE /\ message' = "Server error: " \o OrElse(out.message, "Unknown error")
            /\ UNCHANGED content
    /\ net' = Settle(r)
    /\ lastOp' = [op |-> "fetchContent", result |-> Result(out), out |-> out]
    /\ UNCHANGED <<formData, loading, serverStatus, fileInput, mounted,
                   issued, store, nextId, deletedOK>>

----------------------------------------------------------------------------
\* The form

HandleInputChange(name, value) ==
    /\ mounted
    /\ formData' = [formData EXCEPT ![name] = value]
    /\ lastOp' = [op |-> "other"]
    /\ UNCHANGED <<content, loading, message, serverStatus, fileInput, mounted,
                   net, issued, store, nextId, deletedOK>>

\* files[0] is undefined when the picker is dismissed with nothing chosen.
HandleFileChange(file) ==
    /\ mounted
    /\ formData' = [formData EXCEPT !.image = file]
    /\ fileInput' = IF file = UNDEFINED THEN "" ELSE file
    /\ lastOp' = [op |-> "other"]
    /\ UNCHANGED <<content, loading, message, serverStatus, mounted,
                   net, issued, store, nextId, deletedOK>>

\* Missing without the check of the image.
MissingTextOnly(draft) ==
    \/ draft.title = ""
    \/ draft.description = ""

\* !formData.title || !formData.description || !formData.image
Missing(draft) ==
    \/ draft.title = ""
    \/ draft.description = ""
    \/ draft.image \in {NULL, UNDEFINED}

\* HandleSubmit with a submit button that is never disabled.
HandleSubmitUngated ==
    /\ mounted
    /\ IF Missing(formData)
       THEN /\ message' = MsgValidation
            /\ UNCHANGED <<loading, net, issued>>
       ELSE /\ issued < MaxRequests
            /\ loading' = TRUE
            /\ message' = ""
            /\ net' = Issue([kind |-> "create", stage |-> "sent", payload |-> formData])
            /\ issued' = issued + 1
    /\ lastOp' = [op |-> "submit"]
    /\ UNCHANGED <<content, formData, serverStatus, fileInput, mounted,
                   store, nextId, deletedOK>>

\* handleSubmit up to its await.  The submit button is disabled while loading
\* (App.js:199), so the form is not submitted then.  The handler checks the
\* draft itself; the `required` attributes of the inputs are not relied on.
HandleSubmit ==
    /\ mounted
    /\ ~loading
    /\ IF Missing(formData)
       THEN /\ message' = MsgValidation
            /\ UNCHANGED <<loading, net, issued>>
       ELSE /\ issued < MaxRequests
            /\ loading' = TRUE
            /\ message' = ""
            /\ net' = Issue([kind |-> "create", stage |-> "sent", payload |-> formData])
            /\ issued' = issued + 1
    /\ lastOp' = [op |-> "submit"]
    /\ UNCHANGED <<content, formData, serverStatus, fileInput, mounted,
                   store, nextId, deletedOK>>

\* The backend stores the item under a fresh id and answers POST /content with it.
BackendCreate(r) ==
    /\ r \in InFlight("create")
    /\ net[r].stage = "sent"
    /\ LET item == Item(nextId, net[r].payload.title, net[r].payload.description)
       IN /\ store' = <<item>> \o store
          /\ net' = [net EXCEPT ![r] = [kind |-> "create", stage |-> "replied",
                                        payload |-> net[r].payload, data |-> item]]
    /\ nextId' = nextId + 1
    /\ lastOp' = [op |-> "other"]
    /\ UNCHANGED <<client, mounted, issued, deletedOK>>

\* HandleSubmitSettled adding the new item at the end of the list.
HandleSubmitSettledAppending(r, out) ==
    /\ r \in InFlight("create")
    /\ out \in Outcomes(r)
    /\ IF out.thrown
       THEN /\ message' = "[x] Error adding content: "
                             \o OrElse(out.error.dataMessage, out.error.message)
            /\ UNCHANGED <<content, formData, fileInput>>
       ELSE IF out.success
       THEN /\ message' = MsgAdded
            /\ formData' = EmptyDraft
            /\ fileInput' = ""
            /\ content' = Append(content, out.data)
       ELSE UNCHANGED <<message, content, formData, fileInput>>
    /\ loading' = FALSE
    /\ net' = Settle(r)
    /\ lastOp' = [op |-> "handleSubmit", result |-> Result(out), out |-> out,
                  edited |-> formData # net[r].payload]
    /\ UNCHANGED <<serverStatus, mounted, issued, store, nextId, deletedOK>>

\* handleSubmit after its await: try, catch and finally.
HandleSubmitSettled(r, out) ==
    /\ r \in InFlight("create")
    /\ out \in Outcomes(r)
    /\ IF out.thrown
       THEN /\ message' = "[x] Error adding content: "
                             \o OrElse(out.error.dataMessage, out.error.message)
            /\ UNCHANGED <<content, formData, fileInput>>
       ELSE IF out.success
       THEN /\ message' = MsgAdded
            /\ formData' = EmptyDraft
            /\ fileInput' = ""
            /\ content' = <<out.data>> \o content
       ELSE UNCHANGED <<message, content, formData, fileInput>>
    /\ loading' = FALSE
    /\ net' = Settle(r)
    /\ lastOp' = [op |-> "handleSubmit", result |-> Result(out), out |-> out,
                  edited |-> formData # net[r].payload]
    /\ UNCHANGED <<serverStatus, mounted, issued, store, nextId, deletedOK>>

----------------------------------------------------------------------------
\* handleDelete

\* HandleDelete sending the request whatever window.confirm returns.
HandleDeleteUnconfirmed(id, confirmed) ==
    /\ mounted
    /\ id \in Ids(content)
    /\ issued < MaxRequests
    /\ net' = Issue([kind |-> "delete", stage |-> "sent", id |-> id])
    /\ issued' = issued + 1
    /\ lastOp' = [op |-> "confirm", id |-> id, confirmed |-> confirmed]
    /\ UNCHANGED <<client, mounted, store, nextId, deletedOK>>

\* Up to the await.  The Delete button exists for the displayed items only;
\* confirmed is what window.confirm returns.
HandleDelete(id, confirmed) ==
    /\ mounted
    /\ id \in Ids(content)
    /\ IF confirmed
       THEN /\ issued < MaxRequests
            /\ net' = Issue([kind |-> "delete", stage |-> "sent", id |-> id])
            /\ issued' = issued + 1
       ELSE UNCHANGED <<net, issued>>
    /\ lastOp' = [op |-> "confirm", id |-> id, confirmed |-> confirmed]
    /\ UNCHANGED <<client, mounted, store, nextId, deletedOK>>

\* The backend drops the item and answers DELETE /content/{id}.
BackendDelete(r) ==
    /\ r \in InFlight("delete")
    /\ net[r].stage = "sent"
    /\ store' = SelectSeq(store, LAMBDA item : item.id # net[r].id)
    /\ net' = [net EXCEPT ![r] = [kind |-> "delete", stage |-> "replied",
                                  id |-> net[r].id, data |-> "deleted"]]
    /\ lastOp' = [op |-> "other"]
    /\ UNCHANGED <<client, mounted, issued, nextId, deletedOK>>

\* HandleDeleteSettled with the filter inverted (item.id === id).
HandleDeleteSettledInverted(r, out) ==
    /\ r \in InFlight("delete")
    /\ out \in Outcomes(r)
    /\ IF out.thrown
       THEN /\ message' = "[x] Error deleting content: " \o out.error.message
            /\ UNCHANGED <<content, deletedOK>>
       ELSE IF out.success
       THEN /\ message' = MsgDeleted
            /\ content' = SelectSeq(content, LAMBDA item : item.id = net[r].id)
            /\ deletedOK' = deletedOK \cup {net[r].id}
       ELSE UNCHANGED <<message, content, deletedOK>>
    /\ net' = Settle(r)
    /\ lastOp' = [op |-> "handleDelete", result |-> Result(out), id |-> net[r].id]
    /\ UNCHANGED <<formData, loading, serverStatus, fileInput, mounted,
                   issued, store, nextId>>

\* After the await.
HandleDeleteSettled(r, out) ==
    /\ r \in InFlight("delete")
    /\ out \in Outcomes(r)
    /\ IF out.thrown
       THEN /\ message' = "[x] Error deleting content: " \o out.error.message
            /\ UNCHANGED <<content, deletedOK>>
       ELSE IF out.success
       THEN /\ message' = MsgDeleted
            /\ content' = SelectSeq(content, LAMBDA item : item.id # net[r].id)
            /\ deletedOK' = deletedOK \cup {net[r].id}
       ELSE UNCHANGED <<message, content, deletedOK>>
    /\ net' = Settle(r)
    /\ lastOp' = [op |-> "handleDelete", result |-> Result(out), id |-> net[r].id]
    /\ UNCHANGED <<formData, loading, serverStatus, fileInput, mounted,
                   issued, store, nextId>>

----------------------------------------------------------------------------
Next ==
    \/ Mount
    \/ \E r \in InFlight("health"), out \in {Accepted("up")} \cup Failures :
            CheckServerHealthSettled(r, out)
    \/ FetchContent
    \/ \E r \in InFlight("list") : BackendList(r)
    \/ \E r \in InFlight("list") : \E out \in Outcomes(r) : FetchContentSettled(r, out)
    \/ \E value \in Titles : HandleInputChange("title", value)
    \/ \E value \in Descriptions : HandleInputChange("description", value)
    \/ \E file \in PickedFiles : HandleFileChange(file)
    \/ HandleSubmit
    \/ \E r \in InFlight("create") : BackendCreate(r)
    \/ \E r \in InFlight("create") : \E out \in Outcomes(r) : HandleSubmitSettled(r, out)
    \/ \E id \in Ids(content), confirmed \in BOOLEAN : HandleDelete(id, confirmed)
    \/ \E r \in InFlight("delete") : BackendDelete(r)
    \/ \E r \in InFlight("delete") : \E out \in Outcomes(r) : HandleDeleteSettled(r, out)

Spec == Init /\ [][Next]_vars


----------------------------------------------------------------------------
\* Properties

Settled(op, result) == lastOp'.op = op /\ lastOp'.result = result

Failed(op) == lastOp'.op = op /\ lastOp'.result # "accepted"

\* The list without the items of the given id, by recursion on the list.
RECURSIVE Without(_, _)
Without(list, id) ==
    IF list = <<>> THEN <<>>
    ELSE IF Head(list).id = id THEN Without(Tail(list), id)
    ELSE <<Head(list)>> \o Without(Tail(list), id)

NoDuplicateIds(list) ==
    \A i, j \in DOMAIN list : i # j => list[i].id # list[j].id

\* The messages rendered with the class "success" (message.includes of the
\* check mark); every other non-empty message is rendered as an error.
SuccessMessages == {MsgAdded, MsgDeleted}

SentDeletes(requests) ==
    { i \in DOMAIN requests : requests[i].kind = "delete" /\ requests[i].stage = "sent" }

\* A draft with the title, the description or the image missing (empty string,
\* null, undefined).
DraftIncomplete ==
    formData.title = "" \/ formData.description = "" \/ formData.image \in {NULL, UNDEFINED}

\* C1: a submit of a draft with the title, the description or the image missing
\* issues no request and sets the message to the validation message; the
\* content list, the draft and the loading flag stay as they are.
C1_ValidationFailsFast ==
    [][ (lastOp'.op = "submit" /\ DraftIncomplete)
            => /\ net' = net
               /\ issued' = issued
               /\ message' = MsgValidation
               /\ UNCHANGED <<content, formData, loading>> ]_vars

C1_Witness ==
    /\ lastOp.op = "submit"
    /\ DraftIncomplete
    /\ formData.title # ""
    /\ formData.description # ""
    /\ message = MsgValidation
    /\ content # <<>>

\* C2: handling a create response with success true puts the returned item in
\* front of the list as it was and empties the draft, whatever the draft held.
C2_CreatePrepends ==
    [][ Settled("handleSubmit", "accepted")
            => /\ content' = <<lastOp'.out.data>> \o content
               /\ formData' = EmptyDraft ]_vars

C2_Witness ==
    /\ lastOp.op = "handleSubmit"
    /\ lastOp.result = "accepted"
    /\ lastOp.edited
    /\ Len(content) >= 2
    /\ content[1] = lastOp.out.data
    /\ formData = EmptyDraft

\* C3: handling a delete response with success true for id X leaves the list as
\* it was with exactly the items of id X removed, the others in their order.
C3_DeleteRemoves ==
    [][ Settled("handleDelete", "accepted")
            => /\ content' = Without(content, lastOp'.id)
               /\ lastOp'.id \notin Ids(content') ]_vars

C3_Witness ==
    /\ lastOp.op = "handleDelete"
    /\ lastOp.result = "accepted"
    /\ lastOp.id \notin Ids(content)
    /\ \E i, j \in DOMAIN content :
          i < j /\ content[i].id > lastOp.id /\ content[j].id < lastOp.id

\* C4: a list fetch that fails (success false, error status, no response, other
\* error) leaves the list as it was and sets a non-empty message; one that
\* succeeds replaces the list by the response's data and empties the message.
C4_FetchOutcome ==
    [][ (Failed("fetchContent") => content' = content /\ message' # "")
        /\ (Settled("fetchContent", "accepted")
                => content' = lastOp'.out.data /\ message' = "") ]_vars

C4_Witness ==
    /\ lastOp.op = "fetchContent"
    /\ lastOp.result = "thrown"
    /\ content # <<>>
    /\ message # ""

\* C5: once the health probe has completed the status is connected if the
\* response carried success true and disconnected otherwise; it is never still
\* "checking...".
C5_HealthStatus ==
    /\ lastOp.op = "checkServerHealth"
          => serverStatus = IF lastOp.result = "accepted" THEN StatusConnected
                            ELSE StatusDisconnected
    /\ (mounted /\ InFlight("health") = {}) => serverStatus # StatusChecking

\* C6: after a create or a delete request has failed in any way (success false
\* included) the message shown is a non-empty error message.
C6_FailureShown ==
    (lastOp.op \in {"handleSubmit", "handleDelete"} /\ lastOp.result # "accepted")
        => message # "" /\ message \notin SuccessMessages

\* C7: loading is true exactly while a create request is in flight, at most one
\* is in flight, and only the submit and its completion change the flag.
C7_LoadingTracksCreate ==
    /\ [](loading <=> InFlight("create") # {})
    /\ [](Cardinality(InFlight("create")) <= 1)
    /\ [][ /\ (lastOp'.op = "submit" /\ ~DraftIncomplete) => (~loading /\ loading')
           /\ lastOp'.op = "handleSubmit" => (loading /\ ~loading')
           /\ (lastOp'.op = "submit" /\ DraftIncomplete) => loading' = loading
           /\ loading' # loading => lastOp'.op \in {"submit", "handleSubmit"} ]_vars

C7_Witness ==
    /\ loading
    /\ Cardinality(InFlight("create")) = 1
    /\ InFlight("list") # {}
    /\ lastOp.op = "fetchContent"

\* C8: a delete request is sent only by a confirmed delete of a displayed item,
\* for that item's id; a declined one sends nothing and changes nothing.
C8_DeleteNeedsConfirm ==
    [][ /\ (lastOp'.op = "confirm" /\ ~lastOp'.confirmed)
              => UNCHANGED <<content, message, formData, loading, serverStatus,
                             fileInput, net, issued>>
        /\ Cardinality(SentDeletes(net')) > Cardinality(SentDeletes(net))
              => /\ lastOp'.op = "confirm"
                 /\ lastOp'.confirmed
                 /\ lastOp'.id \in Ids(content)
                 /\ net' = Append(net, [kind |-> "delete", stage |-> "sent",
                                        id |-> lastOp'.id]) ]_vars

C8_Witness ==
    /\ lastOp.op = "confirm"
    /\ ~lastOp.confirmed
    /\ InFlight("delete") # {}

\* C9: the response handled last decides the list.  A list response shows
\* exactly the ids it carries, those of items whose delete was handled before
\* included; a delete or a create response changes the list current then.
C9_LastWriterWins ==
    [][ /\ Settled("fetchContent", "accepted")
              => /\ Ids(content') = Ids(lastOp'.out.data)
                 /\ \A x \in deletedOK : x \in Ids(lastOp'.out.data) => x \in Ids(content')
        /\ Settled("handleDelete", "accepted")
              => Ids(content') = Ids(content) \ {lastOp'.id}
        /\ Settled("handleSubmit", "accepted")
              => Ids(content') = Ids(content) \cup {lastOp'.out.data.id} ]_vars

C9_Witness ==
    /\ lastOp.op = "fetchContent"
    /\ lastOp.result = "accepted"
    /\ \E x \in deletedOK : x \in Ids(content) /\ x \notin Ids(store)

\* C10: with a backend that gives every item its own id and lists no id twice,
\* the displayed list never holds two items of the same id.
C10_NoDuplicates ==
    (/\ NoDuplicateIds(store)
     /\ \A r \in InFlight("list") : net[r].stage = "replied" => NoDuplicateIds(net[r].data))
        => NoDuplicateIds(content)

====
